---- MODULE Spec2Model ----
(***************************************************************************)
(* Model of the fork session manager `Forker` (src/src/lib.rs): the        *)
(* registry `forks` from fork identity to local fork id, the executor's    *)
(* backend (an arena of snapshots plus one active id), and the five        *)
(* operations add_or_select, call, write, alloy_read and alloy_write.      *)
(***************************************************************************)
EXTENDS Integers, Sequences, FiniteSets, TLC

(* ------------------------------ bounds -------------------------------- *)

\* number of distinct fork urls the caller uses
NumEndpoints == 2

\* pinned block numbers range over 1..MaxHeight (plus None, "latest")
MaxHeight == 1

\* the registry grows to this many entries under Spec (two more under SpecSwitch)
MaxForks == 2

\* balance of account P on the remote chain behind every fork url
InitBal == 2

\* transfer amounts range over 1..MaxAmount
MaxAmount == 1

(* ----------------------------- constants ------------------------------ *)

\* byte length of an address accepted by call / write
AddressLen == 20

(* ------------------------------- types -------------------------------- *)

Endpoints == 1..NumEndpoints

\* Option<u64>: <<>> is None, <<n>> is Some(n)
None == <<>>

Some(x) == <<x>>

Heights == {None} \cup {Some(h) : h \in 1..MaxHeight}

\* ForkId::new(fork_url, fork_block_number): distinct per (url, block), with
\* None ("latest") distinct from every pinned block
ForkId(fork_url, fork_block_number) == <<fork_url, fork_block_number>>

Identities == {ForkId(u, h) : u \in Endpoints, h \in Heights}

\* the identity the session is constructed with
LaunchUrl == 1

LaunchBlock == Some(1)

\* Option<Env> given to add_or_select
EnvOverrides == {None, Some("override")}

\* a byte slice of length n filled with byte b
Bytes(b, n) == [i \in 1..n |-> b]

ZERO == Bytes(0, AddressLen)

ACC == Bytes(1, AddressLen)

TOKEN == Bytes(2, AddressLen)

\* alloy Address values: always AddressLen bytes
Addresses == {ACC, TOKEN}

\* raw byte slices handed to call / write as addresses: one byte short, exact, one byte long
FromSlices == {Bytes(1, n) : n \in (AddressLen - 1)..(AddressLen + 1)}

ToSlices == {Bytes(2, n) : n \in (AddressLen - 1)..(AddressLen + 1)}

Amounts == 1..MaxAmount

\* U256 value sent with a write
Values == {0}

VARIABLES
    forks,      \* Forker.forks : HashMap<ForkId, LocalForkId>
    snaps,      \* executor.backend: the snapshots it created, local id i at index i + 1
    active,     \* executor.backend: the active local fork id
    crashed,    \* the task panicked
    ret,        \* what the last operation returned and did
    cur,        \* identity of the last add_or_select (or new) that returned Ok
    lastOk,     \* the most recent add_or_select (or new) returned Ok
    seen,       \* per identity, the balance last established for P while it was `cur`
    creates,    \* per identity, number of create requests sent to the backend
    pending     \* add_or_select futures suspended at fork_evm_env(..).await, oldest first

vars == <<forks, snaps, active, crashed, ret, cur, lastOk, seen, creates, pending>>


(* ------------------- the executor's backend (foundry) ------------------ *)

\* local fork ids the backend has issued: 0 .. next_fork_id - 1
IssuedIds == 0..(Len(snaps) - 1)

\* Backend::is_active_fork(id)
is_active_fork(id) == active = id

\* the snapshot the backend executes against
ActiveSnap == snaps[active + 1]

\* a fresh snapshot of the remote chain behind fork_id
NewSnap(fork_id) == [ident |-> fork_id, bal |-> InitBal]

\* RawCallResult of one execution, with the balance of ACC it leaves behind.
\* TOKEN is an ERC20: balanceOf(ACC) returns the balance, transfer(amount) moves
\* `amount` out of the caller's balance or reverts; any other callee has no code.
Execute(bal, caller, callee, calldata) ==
    IF callee # TOKEN
    THEN [reverted |-> FALSE, result |-> <<>>, bal |-> bal]
    ELSE IF calldata = <<"balanceOf">>
    THEN [reverted |-> FALSE, result |-> <<bal>>, bal |-> bal]
    ELSE IF Len(calldata) = 2 /\ calldata[1] = "transfer"
            /\ caller = ACC /\ calldata[2] <= bal
    THEN [reverted |-> FALSE, result |-> <<1>>, bal |-> bal - calldata[2]]
    ELSE [reverted |-> TRUE, result |-> <<>>, bal |-> bal]

\* the RawCallResult the caller gets
Raw(x) == [reverted |-> x.reverted, result |-> x.result]

(* ------------------------------- results ------------------------------- *)

NoRet ==
    [op |-> "new", status |-> "Ok", raw |-> None, decoded |-> None, err |-> <<>>,
     selected |-> FALSE, created |-> FALSE, engine |-> FALSE, env |-> "fork",
     given |-> FALSE]

\* result of an add_or_select
ForkRet(status, err, selected, created, env) ==
    [op |-> "add_or_select", status |-> status, raw |-> None, decoded |-> None,
     err |-> err, selected |-> selected, created |-> created, engine |-> FALSE,
     env |-> env, given |-> FALSE]

\* the result r of an add_or_select called with the Option<Env> env
Given(r, env) == [r EXCEPT !.given = (env # None)]

\* result of a call / write / alloy_read / alloy_write
CallRet(op, status, raw, decoded, err, engine) ==
    [op |-> op, status |-> status, raw |-> raw, decoded |-> decoded, err |-> err,
     selected |-> FALSE, created |-> FALSE, engine |-> engine, env |-> "none",
     given |-> FALSE]

(* ------------------------------- Forker -------------------------------- *)

\* Forker::new without the forks_map.insert: the launch fork is not registered
InitUnregistered ==
    LET fork_id == ForkId(LaunchUrl, LaunchBlock) IN
    /\ forks = <<>>
    /\ snaps = <<NewSnap(fork_id)>>
    /\ active = 0
    /\ crashed = FALSE
    /\ ret = NoRet
    /\ cur = fork_id
    /\ lastOk = TRUE
    /\ seen = [i \in Identities |-> IF i = fork_id THEN InitBal ELSE -1]
    /\ creates = [i \in Identities |-> IF i = fork_id THEN 1 ELSE 0]
    /\ pending = <<>>

\* Forker::new: the launch fork is spawned in the backend with local id 0 and is
\* active; the registry records it under its ForkId with U256::from(0)
Init ==
    LET fork_id == ForkId(LaunchUrl, LaunchBlock) IN
    /\ forks = (fork_id :> 0)
    /\ snaps = <<NewSnap(fork_id)>>
    /\ active = 0
    /\ crashed = FALSE
    /\ ret = NoRet
    /\ cur = fork_id
    /\ lastOk = TRUE
    /\ seen = [i \in Identities |-> IF i = fork_id THEN InitBal ELSE -1]
    /\ creates = [i \in Identities |-> IF i = fork_id THEN 1 ELSE 0]
    /\ pending = <<>>

\* a shared borrow (`&self`): a second operation starts beside a suspended one
BorrowShared == Len(pending) < 2

\* `&mut self`: a method of the session can be entered only while no other
\* operation of the session, running or suspended, holds the borrow
Borrow == pending = <<>>

\* the handle taken from the number of snapshots instead of the registry size
NewLocalIdSnaps == Len(snaps)

\* the handle add_or_select records for a new fork: U256::from(self.forks.len())
NewLocalId == Cardinality(DOMAIN forks)

\* the already-active check lost: every hit re-selects
AlreadyActiveNever(local_fork_id) == FALSE

\* `if self.executor.backend.is_active_fork(*local_fork_id)`
AlreadyActive(local_fork_id) == is_active_fork(local_fork_id)

\* the configuration the executor holds: set by Forker::new from the launch
\* fork's env and not assigned again
ExecutorEnv == NoRet.env

\* env.unwrap_or_default() of the select branch
SelectEnv(env) == IF env = None THEN "default" ELSE env[1]

\* the already-active branch: `Ok(())`, env is dropped unused
ActiveEnv(env) == "none"

\* env.unwrap_or(default_env) of the create branch
CreateEnv(env) == IF env = None THEN "fork" ELSE env[1]

\* registry after the create branch: the insert comes before create_select_fork
\* and is not undone when that fails
InsertedForks(fork_id) == forks @@ (fork_id :> NewLocalId)

\* hit, already active: Ok(()) and nothing else
AddOrSelectActive(fork_id, env) ==
    /\ fork_id \in DOMAIN forks
    /\ AlreadyActive(forks[fork_id])
    /\ ret' = Given(ForkRet("Ok", <<>>, FALSE, FALSE, ActiveEnv(env)), env)
    /\ cur' = fork_id
    /\ lastOk' = TRUE
    /\ UNCHANGED <<forks, snaps, active, crashed, seen, creates>>

\* hit, not active: backend.select_fork(local id, env or default); the backend
\* rejects an id it never issued and may reject one it did issue
AddOrSelectSelect(fork_id, env) ==
    /\ fork_id \in DOMAIN forks
    /\ ~AlreadyActive(forks[fork_id])
    /\ \E accept \in BOOLEAN :
         LET id == forks[fork_id]
             ok == id \in IssuedIds /\ accept IN
         /\ active' = IF ok THEN id ELSE active
         /\ ret' = Given(ForkRet(IF ok THEN "Ok" ELSE "Err",
                                 IF ok THEN <<>> ELSE <<"select_fork">>,
                                 TRUE, FALSE, SelectEnv(env)), env)
         /\ cur' = IF ok THEN fork_id ELSE cur
         /\ lastOk' = ok
    /\ UNCHANGED <<forks, snaps, crashed, seen, creates>>

\* miss: fork_evm_env(fork_url).await.unwrap() panics when the remote chain
\* configuration cannot be fetched
AddOrSelectPanic(fork_id, env) ==
    /\ fork_id \notin DOMAIN forks
    /\ crashed' = TRUE
    /\ ret' = Given(ForkRet("panic", <<"fork_evm_env">>, FALSE, FALSE, "none"), env)
    /\ lastOk' = FALSE
    /\ UNCHANGED <<forks, snaps, active, cur, seen, creates>>

\* miss: forks.insert(fork_id, len) and then backend.create_select_fork, which
\* fails in create_fork (no snapshot, no id issued), fails in its select_fork
\* (snapshot created under the next id, not active), or succeeds
AddOrSelectCreate(fork_id, env) ==
    /\ fork_id \notin DOMAIN forks
    /\ \E outcome \in {"create_fail", "select_fail", "ok"} :
         /\ forks' = InsertedForks(fork_id)
         /\ creates' = [creates EXCEPT ![fork_id] = @ + 1]
         /\ snaps' = IF outcome = "create_fail" THEN snaps
                     ELSE Append(snaps, NewSnap(fork_id))
         /\ active' = IF outcome = "ok" THEN Len(snaps) ELSE active
         /\ ret' = Given(ForkRet(IF outcome = "ok" THEN "Ok" ELSE "Err",
                                 IF outcome = "ok" THEN <<>> ELSE <<"create_select_fork">>,
                                 outcome # "create_fail", outcome # "create_fail",
                                 CreateEnv(env)), env)
         /\ cur' = IF outcome = "ok" THEN fork_id ELSE cur
         /\ lastOk' = (outcome = "ok")
         /\ seen' = IF outcome = "ok" THEN [seen EXCEPT ![fork_id] = InitBal] ELSE seen
    /\ UNCHANGED crashed

\* miss, first poll: the future suspends at fork_evm_env(fork_url).await with
\* the session still borrowed and nothing done yet
AddOrSelectAwait(fork_id, env) ==
    /\ fork_id \notin DOMAIN forks
    /\ pending' = Append(pending, <<fork_id, env>>)
    /\ UNCHANGED <<forks, snaps, active, crashed, ret, cur, lastOk, seen, creates>>

\* Forker::add_or_select(fork_url, fork_block_number, env), polled for the
\* first time: a hit runs to its end, a miss runs up to its await
add_or_select(fork_url, fork_block_number, env) ==
    LET fork_id == ForkId(fork_url, fork_block_number) IN
    /\ ~crashed
    /\ Borrow
    /\ \/ AddOrSelectActive(fork_id, env) /\ UNCHANGED pending
       \/ AddOrSelectSelect(fork_id, env) /\ UNCHANGED pending
       \/ AddOrSelectAwait(fork_id, env)

\* pending without its k-th entry
Without(k) ==
    [j \in 1..(Len(pending) - 1) |-> IF j < k THEN pending[j] ELSE pending[j + 1]]

\* a suspended add_or_select polled to completion: the rest of the miss
\* branch, from the unwrap of the fetched configuration on
AddOrSelectResume(k) ==
    LET fork_id == pending[k][1]
        env == pending[k][2] IN
    /\ ~crashed
    /\ \/ AddOrSelectPanic(fork_id, env)
       \/ AddOrSelectCreate(fork_id, env)
    /\ pending' = Without(k)

\* a suspended add_or_select dropped by its caller: the borrow ends, and
\* nothing after the await has run
AddOrSelectDrop(k) ==
    /\ pending' = Without(k)
    /\ UNCHANGED <<forks, snaps, active, crashed, ret, cur, lastOk, seen, creates>>


(* --------------------------- raw call / write -------------------------- *)

\* the address check with && in place of ||
ValidAddressesBoth(from_address, to_address) ==
    ~(Len(from_address) # AddressLen /\ Len(to_address) # AddressLen)

\* the address check of call and write passes
ValidAddresses(from_address, to_address) ==
    ~(Len(from_address) # AddressLen \/ Len(to_address) # AddressLen)

\* a call that commits like a write
CallSnapsCommitting(x) == [snaps EXCEPT ![active + 1].bal = x.bal]

\* executor.call_raw_with_env(env): the state changes of the execution are dropped
CallSnaps(x) == snaps

\* a write that drops its state changes like a call
CommitSnapsDropped(x) == snaps

\* executor.call_raw_committing(..): the state changes are committed to the
\* active fork's database
CommitSnaps(x) == [snaps EXCEPT ![active + 1].bal = x.bal]

\* the balance the caller has established on the fork it selected last
Seen(x) == [seen EXCEPT ![cur] = x.bal]

\* the transaction the executor runs: caller, callee, calldata and value
Tx(caller, transact_to, data, value) ==
    [caller |-> caller, transact_to |-> transact_to, data |-> data, value |-> value]

\* the execution of tx against the active snapshot
Run(tx) == Execute(ActiveSnap.bal, tx.caller, tx.transact_to, tx.data)

\* call: Env::default() with tx.caller, tx.data and tx.transact_to set; the
\* value stays at its default, zero
CallEnv(from_address, to_address, calldata) ==
    Tx(from_address, to_address, calldata, 0)

\* write: the arguments of call_raw_committing
WriteTx(from_address, to_address, calldata, value) ==
    Tx(from_address, to_address, calldata, value)

\* the executor can fail only when it is reached
Faults(from_address, to_address) ==
    IF ValidAddresses(from_address, to_address) THEN BOOLEAN ELSE {FALSE}

\* what call returns and leaves behind; `fault` is the executor failing
CallOutcome(from_address, to_address, calldata, fault) ==
    IF ~ValidAddresses(from_address, to_address)
    THEN [ret |-> CallRet("call", "InvalidAddress", None, None,
                          <<"invalid address!">>, FALSE),
          snaps |-> snaps]
    ELSE LET x == Run(CallEnv(from_address, to_address, calldata)) IN
         IF fault
         THEN [ret |-> CallRet("call", "Err", None, None, <<"executor">>, TRUE),
               snaps |-> snaps]
         ELSE [ret |-> CallRet("call", "Ok", Some(Raw(x)), None, <<>>, TRUE),
               snaps |-> CallSnaps(x)]

\* Forker::call(from_address, to_address, calldata)
call(from_address, to_address, calldata) ==
    /\ ~crashed
    /\ Borrow
    /\ \E fault \in Faults(from_address, to_address) :
         \E o \in {CallOutcome(from_address, to_address, calldata, fault)} :
         /\ ret' = o.ret
         /\ snaps' = o.snaps
    /\ UNCHANGED <<forks, active, crashed, cur, lastOk, seen, creates, pending>>

\* what write returns and leaves behind; `fault` is the executor failing
WriteOutcome(from_address, to_address, calldata, value, fault) ==
    IF ~ValidAddresses(from_address, to_address)
    THEN [ret |-> CallRet("write", "InvalidAddress", None, None,
                          <<"invalid address!">>, FALSE),
          snaps |-> snaps, seen |-> seen]
    ELSE LET x == Run(WriteTx(from_address, to_address, calldata, value)) IN
         IF fault
         THEN [ret |-> CallRet("write", "Err", None, None, <<"executor">>, TRUE),
               snaps |-> snaps, seen |-> seen]
         ELSE [ret |-> CallRet("write", "Ok", Some(Raw(x)), None, <<>>, TRUE),
               snaps |-> CommitSnaps(x), seen |-> Seen(x)]

\* Forker::write(from_address, to_address, calldata, value)
write(from_address, to_address, calldata, value) ==
    /\ ~crashed
    /\ Borrow
    /\ \E fault \in Faults(from_address, to_address) :
         \E o \in {WriteOutcome(from_address, to_address, calldata, value, fault)} :
         /\ ret' = o.ret
         /\ snaps' = o.snaps
         /\ seen' = o.seen
    /\ UNCHANGED <<forks, active, crashed, cur, lastOk, creates, pending>>

(* --------------------------- typed call / write ------------------------ *)

\* the SolCall types used: type name, function selected, amount argument and
\* declared return shape
SolCalls ==
    {[name |-> "IERC20::balanceOfCall", fn |-> "balanceOf", amount |-> 0,
      returns |-> "uint256"],
     [name |-> "IFlag::balanceOfCall", fn |-> "balanceOf", amount |-> 0,
      returns |-> "bool"],
     [name |-> "IPair::transferCall", fn |-> "transfer", amount |-> 1,
      returns |-> "uint256,uint256"]}
    \cup {[name |-> "IERC20::transferCall", fn |-> "transfer", amount |-> a,
           returns |-> "bool"] : a \in Amounts}

\* T::abi_encode(): the selector and the arguments
abi_encode(c) == IF c.fn = "balanceOf" THEN <<c.fn>> ELSE <<c.fn, c.amount>>

\* raw calldata handed to call / write
Calldatas == {abi_encode(c) : c \in SolCalls} \cup {<<>>}

\* T::abi_decode_returns(data, validate = true): data is a sequence of 32-byte
\* words; a uint256 is one word, a bool one word that is 0 or 1
abi_decode_returns(data, returns) ==
    IF returns = "uint256" /\ Len(data) = 1
    THEN [ok |-> TRUE, value |-> data[1], error |-> ""]
    ELSE IF returns = "bool" /\ Len(data) = 1 /\ data[1] \in {0, 1}
    THEN [ok |-> TRUE, value |-> data[1], error |-> ""]
    ELSE IF returns = "bool" /\ Len(data) = 1
    THEN [ok |-> FALSE, value |-> 0, error |-> "TypeCheckFail"]
    ELSE [ok |-> FALSE, value |-> 0, error |-> "Overrun"]

\* the TypedError of alloy_read: "Call:{:?} Error:{:?} Raw:{:?}"
ReadTypedError(c, e, raw) == <<<<"Call", c.name>>, <<"Error", e>>, <<"Raw", raw>>>>

\* the TypedError of alloy_write: "Call:{:?} Error:{:?}"
WriteTypedError(c, e, raw) == <<<<"Call", c.name>>, <<"Error", e>>>>

\* what a typed operation returns for the raw result x of its execution
TypedRet(op, c, x, err) ==
    LET d == abi_decode_returns(x.result, c.returns) IN
    IF d.ok
    THEN CallRet(op, "Ok", Some(Raw(x)), Some(d.value), <<>>, TRUE)
    ELSE CallRet(op, "TypedError", None, None, err, TRUE)

\* alloy_read: Env::default() with tx.caller, tx.data = call.abi_encode() and
\* tx.transact_to set
AlloyReadEnv(from_address, to_address, c) ==
    Tx(from_address, to_address, abi_encode(c), 0)

\* what alloy_read returns and leaves behind; `fault` is the executor failing
AlloyReadOutcome(from_address, to_address, c, fault) ==
    LET x == Run(AlloyReadEnv(from_address, to_address, c))
        d == abi_decode_returns(x.result, c.returns) IN
    IF fault
    THEN [ret |-> CallRet("alloy_read", "ExecutorError", None, None,
                          <<"executor">>, TRUE),
          snaps |-> snaps]
    ELSE [ret |-> TypedRet("alloy_read", c, x, ReadTypedError(c, d.error, Raw(x))),
          snaps |-> CallSnaps(x)]

\* Forker::alloy_read(from_address, to_address, call)
alloy_read(from_address, to_address, c) ==
    /\ ~crashed
    /\ Borrow
    /\ \E fault \in BOOLEAN :
         \E o \in {AlloyReadOutcome(from_address, to_address, c, fault)} :
         /\ ret' = o.ret
         /\ snaps' = o.snaps
    /\ UNCHANGED <<forks, active, crashed, cur, lastOk, seen, creates, pending>>

\* alloy_write with caller and callee exchanged
AlloyWriteTxSwapped(from_address, to_address, c, value) ==
    Tx(to_address, from_address, abi_encode(c), value)

\* alloy_write: the arguments of call_raw_committing
AlloyWriteTx(from_address, to_address, c, value) ==
    Tx(from_address, to_address, abi_encode(c), value)

\* alloy_write made atomic: nothing is committed when the decoding fails
AlloyWriteSnapsAtomic(x, d) == IF d.ok THEN CommitSnaps(x) ELSE snaps

\* the snapshots after alloy_write's execution x with decoding d: the commit is
\* made inside call_raw_committing, before abi_decode_returns is tried
AlloyWriteSnaps(x, d) == CommitSnaps(x)

\* what alloy_write returns and leaves behind; `fault` is the executor failing
AlloyWriteOutcome(from_address, to_address, c, value, fault) ==
    LET x == Run(AlloyWriteTx(from_address, to_address, c, value))
        d == abi_decode_returns(x.result, c.returns) IN
    IF fault
    THEN [ret |-> CallRet("alloy_write", "ExecutorError", None, None,
                          <<"executor">>, TRUE),
          snaps |-> snaps, seen |-> seen]
    ELSE [ret |-> TypedRet("alloy_write", c, x, WriteTypedError(c, d.error, Raw(x))),
          snaps |-> AlloyWriteSnaps(x, d), seen |-> Seen(x)]

\* Forker::alloy_write(from_address, to_address, call, value)
alloy_write(from_address, to_address, c, value) ==
    /\ ~crashed
    /\ Borrow
    /\ \E fault \in BOOLEAN :
         \E o \in {AlloyWriteOutcome(from_address, to_address, c, value, fault)} :
         /\ ret' = o.ret
         /\ snaps' = o.snaps
         /\ seen' = o.seen
    /\ UNCHANGED <<forks, active, crashed, cur, lastOk, creates, pending>>

(* ---------------------------- specification ---------------------------- *)

\* Fork ids are only hashed and compared, so the ones not yet registered are
\* interchangeable: the caller takes its next new fork id in a fixed order.
Rank(fork_id) ==
    (fork_id[1] - 1) * (MaxHeight + 1)
    + (IF fork_id[2] = None THEN 0 ELSE fork_id[2][1])

Fresh == Identities \ DOMAIN forks

\* the next new fork id, while the registry has fewer than `cap` entries
NextFresh(cap) ==
    IF Cardinality(DOMAIN forks) < cap
    THEN {i \in Fresh : \A j \in Fresh : Rank(i) <= Rank(j)}
    ELSE {}

Next ==
    \/ \E i \in DOMAIN forks \cup NextFresh(MaxForks), e \in EnvOverrides :
         add_or_select(i[1], i[2], e)
    \/ \E k \in DOMAIN pending : AddOrSelectResume(k)
    \/ \E k \in DOMAIN pending : AddOrSelectDrop(k)
    \/ \E f \in FromSlices, t \in ToSlices, d \in Calldatas : call(f, t, d)
    \/ \E f \in FromSlices, t \in ToSlices, d \in Calldatas, v \in Values :
         write(f, t, d, v)
    \/ \E f \in Addresses, t \in Addresses, c \in SolCalls : alloy_read(f, t, c)
    \/ \E f \in Addresses, t \in Addresses, c \in SolCalls, v \in Values :
         alloy_write(f, t, c, v)

Spec == Init /\ [][Next]_vars

\* Fork switching alone, with a deeper registry: add_or_select without an
\* override, transfers out of ACC and reads of its balance.
SwitchForks == MaxForks + 2

BalanceOf == CHOOSE c \in SolCalls : c.name = "IERC20::balanceOfCall"

Transfer(a) == CHOOSE c \in SolCalls : c.name = "IERC20::transferCall" /\ c.amount = a

NextSwitch ==
    \/ \E i \in DOMAIN forks \cup NextFresh(SwitchForks) : add_or_select(i[1], i[2], None)
    \/ \E k \in DOMAIN pending : AddOrSelectResume(k)
    \/ \E k \in DOMAIN pending : AddOrSelectDrop(k)
    \/ \E a \in Amounts : alloy_write(ACC, TOKEN, Transfer(a), 0)
    \/ alloy_read(ZERO, TOKEN, BalanceOf)

SpecSwitch == Init /\ [][NextSwitch]_vars

\* One caller address pair and a registry one entry deeper than under Spec:
\* hits and misses with and without an override, suspended calls completed or
\* dropped, and every call and write in between.
NextAsync ==
    \/ \E i \in DOMAIN forks \cup NextFresh(MaxForks + 1), e \in EnvOverrides :
         add_or_select(i[1], i[2], e)
    \/ \E k \in DOMAIN pending : AddOrSelectResume(k)
    \/ \E k \in DOMAIN pending : AddOrSelectDrop(k)
    \/ \E d \in Calldatas : call(ACC, TOKEN, d)
    \/ \E d \in Calldatas : write(ACC, TOKEN, d, 0)
    \/ \E c \in SolCalls : alloy_read(ZERO, TOKEN, c)
    \/ \E c \in SolCalls : alloy_write(ACC, TOKEN, c, 0)

SpecAsync == Init /\ [][NextAsync]_vars


(* ------------------------------- claims -------------------------------- *)

IsForkOk(r) == r.op = "add_or_select" /\ r.status = "Ok"

IsWrite(r) == r.op \in {"write", "alloy_write"}

IsRead(r) == r.op \in {"call", "alloy_read"}

\* C1: whenever add_or_select has just returned Ok for an identity, the
\* backend's active snapshot is the one provisioned for that identity.
C1_ActiveIsSelected == IsForkOk(ret) => ActiveSnap.ident = cur

\* C2: an add_or_select that returns an error leaves the registry and the
\* active fork id as they were before the call.
C2_FailedLeavesRegistry ==
    [][(ret'.op = "add_or_select" /\ ret'.status = "Err")
         => (forks' = forks /\ active' = active)]_vars

\* C3: an add_or_select that returns Ok for the identity of the previous
\* successful add_or_select (no other add_or_select in between) issues no select
\* and no create, leaves registry, active id and snapshots unchanged, and the
\* identity has had exactly one create in total.
C3_Idempotent ==
    [][(pending' = pending /\ lastOk /\ IsForkOk(ret') /\ cur' = cur)
         => /\ ~ret'.selected
            /\ ~ret'.created
            /\ creates'[cur] = 1
            /\ forks' = forks
            /\ active' = active
            /\ snaps' = snaps]_vars

\* C3 witness: the already-active branch returned Ok on a fork other than the
\* launch fork whose snapshot is the active one.
C3_Witness ==
    /\ ret = ForkRet("Ok", <<>>, FALSE, FALSE, "none")
    /\ cur # ForkId(LaunchUrl, LaunchBlock)
    /\ ActiveSnap.ident = cur
    /\ creates[cur] = 1

\* the snapshot provisioned for identity b exists
Provisioned(b) == \E k \in DOMAIN snaps : snaps[k].ident = b

\* C4: a write while fork `cur` is selected changes nothing that a later
\* add_or_select(b) followed by a read would show, for every other registered and
\* provisioned fork b.
C4_WriteIsolated ==
    [][IsWrite(ret')
         => \A b \in DOMAIN forks \ {cur} :
              (Provisioned(b) /\ forks[b] \in IssuedIds)
                => snaps'[forks[b] + 1].bal = snaps[forks[b] + 1].bal]_vars

\* C5: after add_or_select returns Ok for a fork the caller has used before, the
\* balance a read returns is the one last established on that fork.
C5_SwitchBackPreserves ==
    (IsForkOk(ret) /\ seen[cur] # -1) => ActiveSnap.bal = seen[cur]

\* C6: a call or alloy_read, whatever it returns, leaves the snapshots, the
\* registry and the active fork id unchanged.
C6_ReadKeepsState ==
    [][IsRead(ret') => (snaps' = snaps /\ forks' = forks /\ active' = active)]_vars

\* C6 witness: a non-committing call executed a transfer that succeeded, and the
\* committed balance is still the initial one.
C6_Witness ==
    /\ ret.op = "call"
    /\ ret.status = "Ok"
    /\ ret.raw = Some([reverted |-> FALSE, result |-> <<1>>])
    /\ \A k \in DOMAIN snaps : snaps[k].bal = InitBal

\* C7: a write that transfers amount a out of ACC and returns Ok without revert
\* lowers the active fork's balance by a; a read of the balance returns the
\* committed balance; and no other operation on the same fork changes it.
C7_ReadAfterWrite ==
    [][/\ IsWrite(ret') =>
            \A a \in Amounts :
              (/\ ret'.status = "Ok" /\ ~ret'.raw[1].reverted
               /\ \/ ret'.op = "write" /\ write(ACC, TOKEN, <<"transfer", a>>, 0)
                  \/ ret'.op = "alloy_write" /\ alloy_write(ACC, TOKEN, Transfer(a), 0))
              => (a <= ActiveSnap.bal /\ snaps'[active + 1].bal = ActiveSnap.bal - a)
       /\ IsRead(ret') =>
            ((/\ ret'.status = "Ok"
              /\ \/ ret'.op = "call" /\ call(ACC, TOKEN, <<"balanceOf">>)
                 \/ ret'.op = "alloy_read" /\ alloy_read(ZERO, TOKEN, BalanceOf))
              => ret'.raw[1].result = <<snaps'[active + 1].bal>>)
       /\ (~IsWrite(ret') /\ active' = active)
            => snaps'[active + 1].bal = ActiveSnap.bal]_vars

\* C7 witness: a typed read returned B0 - V with V < B0 on a fork whose committed
\* balance a write has lowered to that value.
C7_Witness ==
    /\ ret.op = "alloy_read"
    /\ ret.status = "Ok"
    /\ ret.decoded = Some(InitBal - 1)
    /\ ActiveSnap.bal = InitBal - 1
    /\ seen[cur] = InitBal - 1

C8_BadPairs ==
    {p \in FromSlices \X ToSlices : Len(p[1]) # AddressLen \/ Len(p[2]) # AddressLen}

C8_GoodPairs == (FromSlices \X ToSlices) \ C8_BadPairs

\* what call and write do in the current state with the slices p[1] and p[2]
C8_Outcomes(p) ==
    {CallOutcome(p[1], p[2], d, fault) :
       d \in Calldatas, fault \in Faults(p[1], p[2])}
    \cup {[ret |-> w.ret, snaps |-> w.snaps] :
            w \in {WriteOutcome(p[1], p[2], d, v, fault) :
                     d \in Calldatas, v \in Values, fault \in Faults(p[1], p[2])}}

\* C8: call and write with a from or to slice that is not AddressLen bytes
\* return InvalidAddress without invoking the engine and without changing
\* snapshots, registry or active id; with two AddressLen-byte slices they never
\* return InvalidAddress and do invoke the engine. Stated in every state for
\* every input of call and write, and per step for what a step leaves alone.
C8_AddressValidation ==
    /\ [](/\ \A p \in C8_BadPairs : \A o \in C8_Outcomes(p) :
               o.ret.status = "InvalidAddress" /\ ~o.ret.engine /\ o.snaps = snaps
          /\ \A p \in C8_GoodPairs : \A o \in C8_Outcomes(p) :
               o.ret.status # "InvalidAddress" /\ o.ret.engine)
    /\ [][ret'.op \in {"call", "write"} =>
            /\ forks' = forks /\ active' = active
            /\ ret'.status = "InvalidAddress" => (~ret'.engine /\ snaps' = snaps)]_vars

\* C8 witness: a write was refused with InvalidAddress.
C8_Witness == ret.op = "write" /\ ret.status = "InvalidAddress" /\ ~ret.engine

\* the parts a TypedError message carries
ErrParts(r) == {r.err[k][1] : k \in DOMAIN r.err}

\* C9: every TypedError carries the call's name, the decode error and the raw
\* call result.
C9_TypedErrorCarriesRaw ==
    ret.status = "TypedError" => ErrParts(ret) = {"Call", "Error", "Raw"}

\* C10: every failure is returned as an error value: no operation ends in a panic.
C10_NoCrash == ret.status # "panic" /\ ~crashed

\* C11: when an identity is in the registry only because its create failed, the
\* next add_or_select for it sends a create request to the backend again.
C11_RetryCreates ==
    [][ret'.op = "add_or_select" =>
         \A i \in DOMAIN forks, e \in EnvOverrides :
           (~Provisioned(i) /\ add_or_select(i[1], i[2], e))
             => (ret'.created /\ creates'[i] = creates[i] + 1)]_vars

\* C12: at most one operation of the session is in flight; while an
\* add_or_select is suspended on its fetch no other operation starts or takes
\* effect: the step that follows either drops the suspended call, with no
\* effect at all, or completes it, so effects follow issue order.
C12_Serialized ==
    [][/\ Len(pending') <= 1
       /\ pending # <<>> =>
            /\ pending' = <<>>
            /\ \/ UNCHANGED <<forks, snaps, active, crashed, ret, seen, creates>>
               \/ /\ ret'.op = "add_or_select"
                  /\ \/ ret'.status = "panic"
                     \/ DOMAIN forks' = DOMAIN forks \cup {pending[1][1]}]_vars

\* an add_or_select for a third identity is suspended on its fetch
C12_Witness == Len(pending) = 1 /\ Cardinality(DOMAIN forks) = 2 /\ Len(snaps) = 2

\* C13: the registry is injective, an entry never changes its handle and is
\* never removed, only add_or_select changes the registry, and a local id of
\* the backend stays with the snapshot it was issued for.
C13_RegistryGrowsOnly ==
    [][/\ forks' # forks =>
            /\ ret'.op = "add_or_select"
            /\ \A i \in DOMAIN forks : i \in DOMAIN forks' /\ forks'[i] = forks[i]
            /\ \A i, j \in DOMAIN forks' : forks'[i] = forks'[j] => i = j
       /\ snaps' # snaps =>
            \A k \in DOMAIN snaps :
              k \in DOMAIN snaps' /\ snaps'[k].ident = snaps[k].ident]_vars

\* three identities registered, one of them by a create that failed, with a
\* write committed since
C13_Witness ==
    /\ Cardinality(DOMAIN forks) = 3
    /\ Len(snaps) = 2
    /\ ret.op = "write" /\ ret.status = "Ok"
    /\ ActiveSnap.bal < InitBal

\* C14: a hit on an identity that is not active selects it with the override
\* when one is given and with the configuration the executor holds otherwise.
C14_SelectEnvHeld ==
    [][ret'.op = "add_or_select" =>
         \A i \in DOMAIN forks, e \in EnvOverrides :
           (~is_active_fork(forks[i]) /\ add_or_select(i[1], i[2], e))
             => ret'.env = (IF e = None THEN ExecutorEnv ELSE e[1])]_vars

\* C15: add_or_select with an override for the identity whose snapshot is the
\* active one returns Ok, applies no configuration, sends no select and no
\* create, and leaves the registry, the active id and every snapshot as they
\* were.
C15_ActiveOverrideNoOp ==
    [][(ret'.op = "add_or_select" /\ ret'.given) =>
         \A i \in DOMAIN forks :
           (ActiveSnap.ident = i /\ add_or_select(i[1], i[2], Some("override")))
             => /\ ret'.status = "Ok"
                /\ ret'.env = "none"
                /\ ~ret'.selected /\ ~ret'.created
                /\ creates' = creates
                /\ forks' = forks /\ active' = active /\ snaps' = snaps]_vars

\* the typed result t carries what the raw operation returned as r
SameRaw(t, r) ==
    /\ t.engine = r.engine
    /\ (t.status = "ExecutorError") = (r.status = "Err")
    /\ t.status \in {"Ok", "TypedError"} => r.status = "Ok"
    /\ t.status = "Ok" => t.raw = r.raw

\* C16: in every state, alloy_read runs the transaction that call runs on the
\* encoded payload, with the same effect on the snapshots and the same raw
\* result; alloy_write does the same with respect to write, value included.
C16_TypedRefinesRaw ==
    \A f \in Addresses, t \in Addresses, c \in SolCalls, fault \in BOOLEAN :
      /\ AlloyReadEnv(f, t, c) = CallEnv(f, t, abi_encode(c))
      /\ LET a == AlloyReadOutcome(f, t, c, fault)
             o == CallOutcome(f, t, abi_encode(c), fault) IN
         a.snaps = o.snaps /\ SameRaw(a.ret, o.ret)
      /\ \A v \in Values :
           /\ AlloyWriteTx(f, t, c, v) = WriteTx(f, t, abi_encode(c), v)
           /\ LET a == AlloyWriteOutcome(f, t, c, v, fault)
                  o == WriteOutcome(f, t, abi_encode(c), v, fault) IN
              a.snaps = o.snaps /\ a.seen = o.seen /\ SameRaw(a.ret, o.ret)

\* a typed transfer returned Ok with its raw result after moving the balance
C16_Witness ==
    /\ ret.op = "alloy_write" /\ ret.status = "Ok"
    /\ ret.raw = Some([reverted |-> FALSE, result |-> <<1>>])
    /\ ret.decoded = Some(1)
    /\ ActiveSnap.bal = InitBal - 1

\* C17: for every identity in the registry that has a snapshot, the handle the
\* registry recorded is the local id the backend issued for that snapshot.
C17_HandleIsBackendId ==
    \A i \in DOMAIN forks :
      Provisioned(i) => (forks[i] \in IssuedIds /\ snaps[forks[i] + 1].ident = i)

LaunchId == ForkId(LaunchUrl, LaunchBlock)

\* the launch identity is registered under the local id of the launch snapshot
\* and was created once
LaunchRegistered ==
    /\ LaunchId \in DOMAIN forks /\ forks[LaunchId] = 0
    /\ snaps[1].ident = LaunchId
    /\ creates[LaunchId] = 1

\* C18: Forker::new leaves the launch identity registered and active; an
\* add_or_select for it never creates a second snapshot: it is a no-op while
\* the launch snapshot is active and otherwise a select of that snapshot, with
\* the balance the writes on it left.
C18_LaunchNeverRecreated ==
    /\ LaunchRegistered /\ active = 0
    /\ [][/\ LaunchRegistered'
          /\ (ret'.op = "add_or_select"
              /\ \E e \in EnvOverrides : add_or_select(LaunchUrl, LaunchBlock, e)) =>
               /\ ~ret'.created
               /\ forks' = forks /\ snaps' = snaps
               /\ is_active_fork(0) =>
                    (ret'.status = "Ok" /\ ~ret'.selected /\ active' = active)
               /\ ~is_active_fork(0) =>
                    /\ ret'.selected
                    /\ ret'.status = "Ok" =>
                         (active' = 0 /\ ActiveSnap'.bal = seen[LaunchId])]_vars

\* back on the launch fork by a select, with the transfer made there earlier
C18_Witness ==
    /\ ret.op = "add_or_select" /\ ret.status = "Ok" /\ ret.selected /\ ~ret.created
    /\ cur = LaunchId /\ active = 0
    /\ ActiveSnap.bal = InitBal - 1
    /\ Len(snaps) >= 2

\* the snapshots with the active one's balance set to bal
WithBal(bal) == [snaps EXCEPT ![active + 1].bal = bal]

\* C19: in every state, an alloy_write whose execution succeeds but whose
\* return data does not decode returns TypedError with the execution's state
\* change committed, so that a read made next returns the new balance; an
\* alloy_write or write failing in the executor, or a write rejected for its
\* addresses, leaves every snapshot as it was.
C19_WriteNotAtomic ==
    /\ \A f \in Addresses, t \in Addresses, c \in SolCalls, v \in Values :
         LET x == Run(AlloyWriteTx(f, t, c, v))
             ok == AlloyWriteOutcome(f, t, c, v, FALSE)
             ko == AlloyWriteOutcome(f, t, c, v, TRUE) IN
         /\ ok.ret.status = "TypedError" =>
              /\ ok.snaps = WithBal(x.bal)
              /\ ok.snaps[active + 1].bal = Execute(x.bal, ZERO, TOKEN, <<"balanceOf">>).result[1]
         /\ ko.ret.status = "ExecutorError" /\ ko.snaps = snaps
    /\ \A f \in FromSlices, t \in ToSlices, d \in Calldatas, v \in Values :
         /\ WriteOutcome(f, t, d, v, TRUE).ret.status \in {"InvalidAddress", "Err"}
         /\ WriteOutcome(f, t, d, v, TRUE).snaps = snaps
         /\ ~ValidAddresses(f, t) =>
              /\ WriteOutcome(f, t, d, v, FALSE).ret.status = "InvalidAddress"
              /\ WriteOutcome(f, t, d, v, FALSE).snaps = snaps

\* a typed transfer declared with a two-word return failed to decode after the
\* balance it moved was committed
C19_Witness ==
    /\ ret.op = "alloy_write" /\ ret.status = "TypedError"
    /\ ret.err = WriteTypedError([name |-> "IPair::transferCall"], "Overrun", None)
    /\ snaps = <<[ident |-> LaunchId, bal |-> InitBal - 1]>>
    /\ seen[cur] = InitBal - 1

====
